---- MODULE Spec2Model ----
(***************************************************************************)
(* Model of the tool-using agent of Phoenix/utils.py: run_agent, its tool  *)
(* dispatch (handle_tool_calls), the three tool implementations and the    *)
(* spans the tracer records around them.                                   *)
(*                                                                         *)
(* The language model, the parquet/duckdb backing store and the tracing    *)
(* library are the environment.  The model service answers a request with  *)
(* any response (a final text, or one or more tool calls with identifiers  *)
(* it has not used before) or fails; the backing store answers or raises.  *)
(* A span is what the tracer's start_as_current_span context manager and   *)
(* the tracer.tool()/tracer.chain() decorators make of it: opened at       *)
(* entry, made the current span, ended when the block is left, and marked  *)
(* error when the block is left by an exception.                           *)
(***************************************************************************)
EXTENDS Naturals, Sequences, FiniteSets

(* The model may issue at most this many tool calls during one run. *)
MaxToolCalls == 3

VARIABLES
    input,        \* the argument the caller passed: a string or a list
    viaMain,      \* TRUE when the run was entered through start_main_span
    pc,           \* position of the run in run_agent / start_main_span
    messages,     \* the Conversation (the list run_agent works on)
    tool_calls,   \* run_agent's local: tool calls of the last response
    k,            \* handle_tool_calls' loop index into tool_calls
    reqs,         \* model requests issued so far
    issued,       \* tool calls the model has issued so far (next id - 1)
    spans,        \* every span ever opened, in opening order
    stack,        \* the tracer's current-span context (innermost last)
    span,         \* run_agent's local `span`: index of the last router_call
    ret,          \* the value returned by run_agent (<<>> before it returns)
    invoked,      \* the tool implementations invoked: call id, tool,
                  \* whether the environment raised inside the tool, and
                  \* whether a structured-output call yielded a config
    err,          \* the exception that left run_agent, "none" if none
    chart_config, \* the last configuration handed to create_chart
    caller_list,  \* the list object the caller passed (<<>> for a string)
    hpc,          \* position of the benchmark script evaluate_custom.py
    fs,           \* the files and directories that exist, as paths from the
                  \* directory the script is started in
    cmds,         \* the commands the script has run, in order
    out,          \* what the script has printed
    env           \* what the script's environment does (see Envs)

(* the state of the benchmark script *)
harness == <<hpc, fs, cmds, out, env>>

vars == <<input, viaMain, pc, messages, tool_calls, k, reqs, issued, spans,
          stack, span, ret, invoked, err, chart_config, caller_list,
          harness>>

----------------------------------------------------------------------------
(* Messages *)

NoContent == <<>>

(* SYSTEM_PROMPT, utils.py 203-205 *)
SYSTEM_PROMPT == <<"You are a helpful assistant ...">>

Msg(role, content, calls, id, isdict) ==
    [role |-> role, content |-> content, tool_calls |-> calls,
     tool_call_id |-> id, isdict |-> isdict]

UserMsg(text)   == Msg("user", text, <<>>, 0, TRUE)
SystemMsg(text) == Msg("system", text, <<>>, 0, TRUE)

(* as ToolMsg, without the identifier of the call *)
ToolMsg_NoId(result, id) == Msg("tool", result, <<>>, 0, TRUE)

(* {"role": "tool", "content": result, "tool_call_id": tool_call.id} *)
ToolMsg(result, id) == Msg("tool", result, <<>>, id, TRUE)

(* response.choices[0].message: a message object, not a dict *)
AssistantMsg(content, calls) == Msg("assistant", content, calls, 0, FALSE)

Question == <<"What were total sales last week?">>

(* What a caller passes to run_agent: a bare string, or a list of message
   dicts with no, one or two system messages. *)
Inputs ==
    { [kind |-> "str",  text |-> Question, list |-> <<>>],
      [kind |-> "list", text |-> NoContent, list |-> <<UserMsg(Question)>>],
      [kind |-> "list", text |-> NoContent,
       list |-> <<SystemMsg(<<"caller prompt">>), UserMsg(Question)>>],
      [kind |-> "list", text |-> NoContent,
       list |-> <<SystemMsg(<<"caller prompt">>), UserMsg(Question),
                  SystemMsg(<<"second prompt">>)>>] }

----------------------------------------------------------------------------
(* Tool registry and tool calls *)

(* keys of tool_implementations, utils.py 188-192 *)
ToolNames == {"lookup_sales_data", "analyze_sales_data", "generate_visualization"}

(* names a model can put in a tool call: the registered ones and one that
   is not registered *)
CallNames == ToolNames \cup {"delete_sales_data"}

ValidArgs     == "{\"k\": \"v\"}"
MalformedArgs == "{\"k\": "
ArgPayloads   == {ValidArgs, MalformedArgs}

(* json.loads: the parsed arguments, or a decode error *)
JsonLoads(arguments) ==
    IF arguments = ValidArgs THEN [ok |-> TRUE] ELSE [ok |-> FALSE]

ToolCall(id, name, arguments) == [id |-> id, name |-> name, arguments |-> arguments]

(* all lists of n tool calls carrying the fresh identifiers first+1 .. first+n *)
CallLists(first, n) ==
    { [i \in 1..n |-> ToolCall(first + i, f[i][1], f[i][2])] :
        f \in [1..n -> CallNames \X ArgPayloads] }

FinalText == <<"final answer">>

----------------------------------------------------------------------------
(* Spans *)

NewSpan(name, kind, parent) ==
    [name |-> name, kind |-> kind, parent |-> parent, open |-> TRUE,
     closes |-> 0, status |-> "unset", inputs |-> 0, outputs |-> 0, late |-> 0,
     raised |-> FALSE]

Tr(sp, st) == [spans |-> sp, stack |-> st]

Current(T) == IF T.stack = <<>> THEN 0 ELSE T.stack[Len(T.stack)]

(* tracer.start_as_current_span(name, kind): a child of the current span,
   which becomes the current span *)
StartSpan(T, name, kind) ==
    Tr(Append(T.spans, NewSpan(name, kind, Current(T))),
       Append(T.stack, Len(T.spans) + 1))

(* span.set_input: recorded on a span that has not ended, dropped otherwise *)
SetInput(T, i) ==
    IF T.spans[i].open
    THEN Tr([T.spans EXCEPT ![i].inputs = @ + 1], T.stack)
    ELSE T

(* span.set_output: recorded on a span that has not ended; on an ended span
   the call is dropped (counted in `late`) *)
SetOutput(T, i) ==
    IF T.spans[i].open
    THEN Tr([T.spans EXCEPT ![i].outputs = @ + 1], T.stack)
    ELSE Tr([T.spans EXCEPT ![i].late = @ + 1], T.stack)

(* span.set_status: ignored on an ended span and once the status is ok *)
SetStatus(T, i, s) ==
    IF T.spans[i].open /\ T.spans[i].status # "ok"
    THEN Tr([T.spans EXCEPT ![i].status = s], T.stack)
    ELSE T

(* leaving the `with` block of the current span: the span is ended and its
   parent is the current span again *)
EndSpan(T) ==
    Tr([T.spans EXCEPT ![Current(T)].open = FALSE,
                       ![Current(T)].closes = @ + 1],
       SubSeq(T.stack, 1, Len(T.stack) - 1))

(* leaving the block by an exception (noted in `raised`): status error,
   then ended *)
EndSpanRaise(T) ==
    LET i == Current(T)
        T1 == SetStatus(T, i, "error")
    IN  EndSpan(Tr([T1.spans EXCEPT ![i].raised = TRUE], T1.stack))

(* a decorated function (tracer.tool(), tracer.chain()) returning normally *)
EndDecorated(T) ==
    EndSpan(SetOutput(SetStatus(T, Current(T), "ok"), Current(T)))

(* an exception propagating out of every block that is still open *)
RECURSIVE Unwind(_)
Unwind(T) == IF T.stack = <<>> THEN T ELSE Unwind(EndSpanRaise(T))

----------------------------------------------------------------------------
(* Tool implementations.  Each takes the tracing state and what the        *)
(* environment does during the call, and yields the tracing state after    *)
(* the call, whether the call raised, the returned string and the chart    *)
(* configuration in use.                                                   *)

Res(T, raised, result, config) ==
    [T |-> T, raised |-> raised, result |-> result, config |-> config]

NoConfig == [chart_type |-> "", x_axis |-> "", y_axis |-> "", title |-> <<>>]

LookupOutcomes == {"rows", "read_parquet raises", "generate_sql_query raises",
                   "duckdb.sql raises"}

(* f"Error accessing data: {str(e)}" *)
ErrorString(e) == <<"Error accessing data:", e>>

(* as lookup_sales_data, without the try/except: the store's exception
   leaves the tool *)
lookup_sales_data_NoExcept(T, oc, cfg) ==
    LET T1 == SetInput(StartSpan(T, "lookup_sales_data", "tool"),
                       Len(T.spans) + 1)
        T2 == SetInput(StartSpan(T1, "execute_sql_query", "chain"),
                       Len(T1.spans) + 1)
    IN  CASE oc = "rows" ->
                Res(EndDecorated(EndSpan(SetStatus(SetOutput(T2, Current(T2)),
                                                   Current(T2), "ok"))),
                    FALSE, <<"table">>, cfg)
          [] oc = "duckdb.sql raises" ->
                Res(EndSpanRaise(EndSpanRaise(T2)), TRUE, NoContent, cfg)
          [] OTHER -> Res(EndSpanRaise(T1), TRUE, NoContent, cfg)

(* as lookup_sales_data, with the set_status of line 62 moved in front of
   the query of line 60 *)
lookup_sales_data_StatusFirst(T, oc, cfg) ==
    LET T1 == SetInput(StartSpan(T, "lookup_sales_data", "tool"),
                       Len(T.spans) + 1)
        T2 == SetStatus(SetInput(StartSpan(T1, "execute_sql_query", "chain"),
                                 Len(T1.spans) + 1),
                        Len(T1.spans) + 1, "ok")
        T3 == IF oc = "duckdb.sql raises"
              THEN EndSpanRaise(T2)
              ELSE EndSpan(SetOutput(T2, Current(T2)))
    IN  CASE oc = "rows" -> Res(EndDecorated(T3), FALSE, <<"table">>, cfg)
          [] oc = "duckdb.sql raises" ->
                Res(EndDecorated(T3), FALSE, ErrorString(oc), cfg)
          [] OTHER -> Res(EndDecorated(T1), FALSE, ErrorString(oc), cfg)

(* lookup_sales_data, utils.py 51-65 *)
lookup_sales_data(T, oc, cfg) ==
    LET T1 == SetInput(StartSpan(T, "lookup_sales_data", "tool"),
                       Len(T.spans) + 1)
        \* the `with` block of execute_sql_query, lines 58-62
        T2 == SetInput(StartSpan(T1, "execute_sql_query", "chain"),
                       Len(T1.spans) + 1)
        T3 == IF oc = "duckdb.sql raises"
              THEN EndSpanRaise(T2)
              ELSE EndSpan(SetStatus(SetOutput(T2, Current(T2)),
                                     Current(T2), "ok"))
    IN  CASE oc = "rows" -> Res(EndDecorated(T3), FALSE, <<"table">>, cfg)
          [] oc = "duckdb.sql raises" ->
                Res(EndDecorated(T3), FALSE, ErrorString(oc), cfg)
          [] OTHER -> Res(EndDecorated(T1), FALSE, ErrorString(oc), cfg)

AnalyzeOutcomes == {"analysis", "model raises"}

(* analyze_sales_data, utils.py 72-80; the returned text is the model's
   analysis or, when that is empty, the fixed "No analysis could be
   generated": one string either way *)
analyze_sales_data(T, oc, cfg) ==
    LET T1 == SetInput(StartSpan(T, "analyze_sales_data", "tool"),
                       Len(T.spans) + 1)
    IN  CASE oc = "analysis" -> Res(EndDecorated(T1), FALSE, <<"analysis">>, cfg)
          [] OTHER -> Res(EndSpanRaise(T1), TRUE, NoContent, cfg)

(* Python values met by extract_chart_config: the content of the message
   returned by client.beta.chat.completions.parse is the JSON text of the
   model's answer (a str) or None; the VisualizationConfig object is in the
   message's `parsed` attribute. *)
Goal == <<"goal">>

ModelConfig ==
    [chart_type |-> "bar", x_axis |-> "store", y_axis |-> "sales",
     title |-> <<"Sales by store">>]

StructuredResponse ==
    [content |-> [type |-> "str", value |-> ModelConfig],
     parsed  |-> [type |-> "VisualizationConfig", value |-> ModelConfig]]

RefusalResponse ==
    [content |-> [type |-> "NoneType", value |-> NoConfig],
     parsed  |-> [type |-> "NoneType", value |-> NoConfig]]

(* the default of lines 111-117 *)
DefaultConfig(visualization_goal) ==
    [chart_type |-> "line", x_axis |-> "date", y_axis |-> "value",
     title |-> visualization_goal]

(* the try/except of extract_chart_config, lines 101-117: content.chart_type
   and the other attribute reads succeed only on a VisualizationConfig *)
ChartConfigOf(response, visualization_goal) ==
    LET content == response.content
    IN  IF content.type = "VisualizationConfig"
        THEN content.value
        ELSE DefaultConfig(visualization_goal)

VisualizationOutcomes ==
    {"parse raises", "create_chart raises", "structured", "refusal"}

(* generate_visualization, utils.py 135-139, with extract_chart_config
   (93-117) and create_chart (125-133) *)
generate_visualization(T, oc, cfg) ==
    LET T1 == SetInput(StartSpan(T, "generate_visualization", "tool"),
                       Len(T.spans) + 1)
        T2 == SetInput(StartSpan(T1, "extract_chart_config", "chain"),
                       Len(T1.spans) + 1)
        response == IF oc = "refusal" THEN RefusalResponse
                    ELSE StructuredResponse
        config == ChartConfigOf(response, Goal)
        T3 == SetInput(StartSpan(EndDecorated(T2), "create_chart", "chain"),
                       Len(T2.spans) + 1)
    IN  CASE oc = "parse raises" ->
                Res(EndSpanRaise(EndSpanRaise(T2)), TRUE, NoContent, cfg)
          [] oc = "create_chart raises" ->
                Res(EndSpanRaise(EndSpanRaise(T3)), TRUE, NoContent, config)
          [] OTHER ->
                Res(EndDecorated(EndDecorated(T3)), FALSE, <<"chart code">>,
                    config)

(* the outcomes in which the environment (backing store, model service)
   raises an exception inside the tool *)
Failed(oc) == oc \in {"read_parquet raises", "generate_sql_query raises",
                      "duckdb.sql raises", "model raises", "parse raises",
                      "create_chart raises"}

(* the outcomes in which the structured-output call of extract_chart_config
   succeeds and yields a VisualizationConfig *)
Parsed(oc) == oc \in {"structured", "create_chart raises"}

(* what the environment may do during a call of the named tool *)
Outcomes(name) ==
    CASE name = "lookup_sales_data"      -> LookupOutcomes
      [] name = "analyze_sales_data"     -> AnalyzeOutcomes
      [] name = "generate_visualization" -> VisualizationOutcomes
      [] OTHER -> {}

(* the call of line 199, with function = tool_implementations[name] *)
CallTool(name, T, oc, cfg) ==
    CASE name = "lookup_sales_data"  -> lookup_sales_data(T, oc, cfg)
      [] name = "analyze_sales_data" -> analyze_sales_data(T, oc, cfg)
      [] OTHER                       -> generate_visualization(T, oc, cfg)

----------------------------------------------------------------------------
(* The run *)

(* the benchmark script is not running *)
(* evaluate_custom.py: the instance read from custom_instance.json (lines
   6-11).  A path is the sequence of its components; a relative path is
   resolved against the working directory of the process that opens it. *)
repo_path == <<"owner__repo">>

base_commit == "base_commit"

Cwd == <<>>

Join(dir, name) == dir \o <<name>>

Resolve(cwd, path) == cwd \o path

(* line 30 *)
patch_file == Join(repo_path, "solution.patch")

File(path, content) == [path |-> path, content |-> content]

Exists(F, path) == \E f \in F : f.path = path

Write(F, path, content) ==
    {f \in F : f.path # path} \cup {File(path, content)}

(* the files dependency installation is probed by, in the order of lines
   22, 24, 26 *)
ProbeFiles == {"requirements.txt", "setup.py", "pyproject.toml"}

(* what the repository holds at the base commit: any of the probe files,
   and possibly a file of its own at owner__repo/solution.patch *)
Trees == SUBSET (ProbeFiles \cup {"owner__repo/solution.patch"})

TreeFiles(tree) ==
    {File(repo_path, "directory")}
      \cup {File(Join(repo_path, n), "tracked") : n \in tree \cap ProbeFiles}
      \cup (IF "owner__repo/solution.patch" \in tree
            THEN {File(repo_path \o patch_file, "tracked")}
            ELSE {})

(* what the script cannot decide: whether the repository directory is there
   when it starts, whether clone and checkout succeed, what the repository
   holds, whether git accepts a patch it can read, and pytest's exit code *)
Envs ==
    [exists0 : BOOLEAN, cloneOk : BOOLEAN, checkoutOk : BOOLEAN,
     tree : Trees, applyOk : BOOLEAN, testRc : {0, 1}]

NoEnv ==
    [exists0 |-> FALSE, cloneOk |-> FALSE, checkoutOk |-> FALSE,
     tree |-> {}, applyOk |-> FALSE, testRc |-> 0]

(* a command run by the script: program and arguments, the argument that
   names a file (<<>> if none), the working directory, the exit code *)
Cmd(argv, file, cwd, rc) ==
    [argv |-> argv, file |-> file, cwd |-> cwd, rc |-> rc]

(* the script is not run *)
HarnessIdle ==
    /\ hpc = "idle"
    /\ fs = {}
    /\ cmds = <<>>
    /\ out = <<>>
    /\ env = NoEnv

(* as InPlace, for a list that is rebound to a new list (messages =
   messages + [m]) instead of appended to *)
InPlace_Rebound(new) == caller_list

(* messages.append (lines 200, 211, 220) works on the list object itself:
   when the caller passed a list, run_agent's `messages` is that object and
   the caller's list is what the local list has become *)
InPlace(new) == IF input.kind = "list" THEN new ELSE caller_list

(* run_agent is called with any of the inputs; start_main_span, which hands
   its argument on to run_agent, with the question string *)
Init ==
    /\ input \in Inputs
    /\ viaMain \in BOOLEAN
    /\ viaMain => input.kind = "str"
    /\ pc = IF viaMain THEN "main" ELSE "start"
    /\ messages = input.list
    /\ tool_calls = <<>>
    /\ k = 0
    /\ reqs = 0
    /\ issued = 0
    /\ spans = <<>>
    /\ stack = <<>>
    /\ span = 0
    /\ ret = NoContent
    /\ invoked = <<>>
    /\ err = "none"
    /\ chart_config = NoConfig
    /\ caller_list = input.list
    /\ HarnessIdle

T0 == Tr(spans, stack)

(* the tracing state after a step *)
Traced(T) == spans' = T.spans /\ stack' = T.stack

(* start_main_span, lines 231-233: open AgentRun, record the input, call
   run_agent *)
StartMainSpan ==
    /\ pc = "main"
    /\ Traced(SetInput(StartSpan(T0, "AgentRun", "agent"), Len(spans) + 1))
    /\ pc' = "start"
    /\ UNCHANGED <<harness, input, viaMain, messages, caller_list,
                   tool_calls, k, reqs, issued, span, ret, invoked, err,
                   chart_config>>

(* run_agent, lines 208-209: a bare string becomes one user message *)
NormalizeInput ==
    /\ pc = "start"
    /\ messages' = IF input.kind = "str"
                   THEN <<UserMsg(input.text)>>
                   ELSE messages
    /\ UNCHANGED caller_list
    /\ pc' = "sys"
    /\ UNCHANGED <<harness, input, viaMain, tool_calls, k, reqs, issued,
                   spans, stack, span, ret, invoked, err, chart_config>>

(* the test of line 210 *)
HasSystem(msgs) ==
    \E i \in 1..Len(msgs) : msgs[i].isdict /\ msgs[i].role = "system"

(* as WithSystem, appending the prompt whatever the caller supplied *)
WithSystem_Always(msgs) == Append(msgs, SystemMsg(SYSTEM_PROMPT))

(* as WithSystem, putting the prompt in front of the caller's messages *)
WithSystem_Prepend(msgs) ==
    IF ~HasSystem(msgs) THEN <<SystemMsg(SYSTEM_PROMPT)>> \o msgs ELSE msgs

(* lines 210-211 *)
WithSystem(msgs) ==
    IF ~HasSystem(msgs) THEN Append(msgs, SystemMsg(SYSTEM_PROMPT)) ELSE msgs

EnsureSystem ==
    /\ pc = "sys"
    /\ messages' = WithSystem(messages)
    /\ caller_list' = InPlace(messages')
    /\ pc' = "loop"
    /\ UNCHANGED <<harness, input, viaMain, tool_calls, k, reqs, issued,
                   spans, stack, span, ret, invoked, err, chart_config>>

(* lines 213-214: the router_call span is opened and given the Conversation
   as input *)
OpenRouterSpan ==
    /\ pc = "loop"
    /\ Traced(SetInput(StartSpan(T0, "router_call", "chain"), Len(spans) + 1))
    /\ span' = Len(spans) + 1
    /\ pc' = "request"
    /\ UNCHANGED <<harness, input, viaMain, messages, caller_list,
                   tool_calls, k, reqs, issued, ret, invoked, err,
                   chart_config>>

(* what the model service may answer when it has issued `n` calls so far *)
Responses(n) ==
    {[content |-> FinalText, tool_calls |-> <<>>]}
        \cup { [content |-> NoContent, tool_calls |-> c] :
                 c \in UNION { CallLists(n, m) : m \in 1..(MaxToolCalls - n) } }

(* as ModelRequest, without the set_status of line 222 *)
ModelRequest_NoStatus ==
    /\ pc = "request"
    /\ \E r \in Responses(issued) :
         /\ messages' = Append(messages, AssistantMsg(r.content, r.tool_calls))
         /\ tool_calls' = r.tool_calls
         /\ issued' = issued + Len(r.tool_calls)
    /\ caller_list' = InPlace(messages')
    /\ reqs' = reqs + 1
    /\ Traced(EndSpan(T0))
    /\ pc' = "branch"
    /\ UNCHANGED <<harness, input, viaMain, k, span, ret, invoked, err,
                   chart_config>>

(* lines 215-222 and the end of the `with` block: the request, the response
   appended, tool_calls read, status ok, span ended *)
ModelRequest ==
    /\ pc = "request"
    /\ \E r \in Responses(issued) :
         /\ messages' = Append(messages, AssistantMsg(r.content, r.tool_calls))
         /\ tool_calls' = r.tool_calls
         /\ issued' = issued + Len(r.tool_calls)
    /\ caller_list' = InPlace(messages')
    /\ reqs' = reqs + 1
    /\ Traced(EndSpan(SetStatus(T0, span, "ok")))
    /\ pc' = "branch"
    /\ UNCHANGED <<harness, input, viaMain, k, span, ret, invoked, err,
                   chart_config>>

(* line 215 raising: the exception leaves run_agent (and start_main_span) *)
ModelRequestRaises ==
    /\ pc = "request"
    /\ reqs' = reqs + 1
    /\ Traced(Unwind(T0))
    /\ err' = "model service error"
    /\ pc' = "raised"
    /\ UNCHANGED <<harness, input, viaMain, messages, caller_list,
                   tool_calls, k, issued, span, ret, invoked, chart_config>>

(* as EnterToolCalls, but entered for every response (the test of line 223
   taken as `tool_calls is not None`, true of an empty list) *)
EnterToolCalls_Always ==
    /\ pc = "branch"
    /\ Traced(SetInput(StartSpan(T0, "handle_tool_calls", "chain"),
                       Len(spans) + 1))
    /\ k' = 1
    /\ pc' = "dispatch"
    /\ UNCHANGED <<harness, input, viaMain, messages, caller_list,
                   tool_calls, reqs, issued, span, ret, invoked, err,
                   chart_config>>

(* lines 223-224: tool calls present, handle_tool_calls is entered *)
EnterToolCalls ==
    /\ pc = "branch"
    /\ tool_calls # <<>>
    /\ Traced(SetInput(StartSpan(T0, "handle_tool_calls", "chain"),
                       Len(spans) + 1))
    /\ k' = 1
    /\ pc' = "dispatch"
    /\ UNCHANGED <<harness, input, viaMain, messages, caller_list,
                   tool_calls, reqs, issued, span, ret, invoked, err,
                   chart_config>>

(* as ReturnFinal, but taken whatever the response carried (the return of
   line 228 outside the else) *)
ReturnFinal_Any ==
    /\ pc = "branch"
    /\ Traced(SetOutput(T0, span))
    /\ ret' = messages[Len(messages)].content
    /\ pc' = IF viaMain THEN "main_ret" ELSE "returned"
    /\ UNCHANGED <<harness, input, viaMain, messages, caller_list,
                   tool_calls, k, reqs, issued, span, invoked, err,
                   chart_config>>

(* lines 226-228: no tool calls, the response text is returned *)
ReturnFinal ==
    /\ pc = "branch"
    /\ tool_calls = <<>>
    /\ Traced(SetOutput(T0, span))
    /\ ret' = messages[Len(messages)].content
    /\ pc' = IF viaMain THEN "main_ret" ELSE "returned"
    /\ UNCHANGED <<harness, input, viaMain, messages, caller_list,
                   tool_calls, k, reqs, issued, span, invoked, err,
                   chart_config>>

(* an exception leaving handle_tool_calls, run_agent and start_main_span *)
Raise(T, e) ==
    /\ Traced(Unwind(T))
    /\ err' = e
    /\ pc' = "raised"
    /\ UNCHANGED <<messages, caller_list, k>>

(* handle_tool_calls, lines 196-200: one turn of the loop.  The call being
   dispatched: *)
Dispatching == pc = "dispatch" /\ k <= Len(tool_calls)

(* as DispatchUnknown, but the unknown tool is answered by a degraded tool
   message and the loop goes on *)
DispatchUnknown_Degraded ==
    /\ Dispatching
    /\ tool_calls[k].name \notin ToolNames
    /\ messages' = Append(messages,
                          ToolMsg(<<"unknown tool">>, tool_calls[k].id))
    /\ caller_list' = InPlace(messages')
    /\ k' = k + 1
    /\ UNCHANGED <<harness, input, viaMain, pc, tool_calls, reqs, issued,
                   spans, stack, span, ret, invoked, err, chart_config>>

(* line 197 with a name that is not a key of tool_implementations *)
DispatchUnknown ==
    /\ Dispatching
    /\ tool_calls[k].name \notin ToolNames
    /\ Raise(T0, "KeyError")
    /\ UNCHANGED <<harness, input, viaMain, tool_calls, reqs, issued, span,
                   ret, invoked, chart_config>>

(* as DispatchMalformed, but the decode error is caught: the call is
   answered by a tool message that reports it and the loop goes on *)
DispatchMalformed_Degraded ==
    /\ Dispatching
    /\ tool_calls[k].name \in ToolNames
    /\ ~JsonLoads(tool_calls[k].arguments).ok
    /\ messages' = Append(messages,
                          ToolMsg(<<"invalid arguments">>, tool_calls[k].id))
    /\ caller_list' = InPlace(messages')
    /\ k' = k + 1
    /\ UNCHANGED <<harness, input, viaMain, pc, tool_calls, reqs, issued,
                   spans, stack, span, ret, invoked, err, chart_config>>

(* as DispatchMalformed, but the call with the bad arguments is skipped *)
DispatchMalformed_Skip ==
    /\ Dispatching
    /\ tool_calls[k].name \in ToolNames
    /\ ~JsonLoads(tool_calls[k].arguments).ok
    /\ k' = k + 1
    /\ UNCHANGED <<harness, input, viaMain, pc, messages, caller_list,
                   tool_calls, reqs, issued, spans, stack, span, ret, invoked,
                   err, chart_config>>

(* line 198 with arguments that are not JSON *)
DispatchMalformed ==
    /\ Dispatching
    /\ tool_calls[k].name \in ToolNames
    /\ ~JsonLoads(tool_calls[k].arguments).ok
    /\ Raise(T0, "JSONDecodeError")
    /\ UNCHANGED <<harness, input, viaMain, tool_calls, reqs, issued, span,
                   ret, invoked, chart_config>>

(* lines 197-200: the tool is called; its result is appended as a tool
   message, or its exception leaves handle_tool_calls *)
DispatchInvoke ==
    /\ Dispatching
    /\ tool_calls[k].name \in ToolNames
    /\ JsonLoads(tool_calls[k].arguments).ok
    /\ \E oc \in Outcomes(tool_calls[k].name) :
         LET call == tool_calls[k]
             r == CallTool(call.name, T0, oc, chart_config)
         IN  /\ invoked' = Append(invoked, [id |-> call.id, name |-> call.name,
                                            failed |-> Failed(oc),
                                            parsed |-> Parsed(oc)])
             /\ chart_config' = r.config
             /\ IF r.raised
                THEN Raise(r.T, "tool error")
                ELSE /\ messages' = Append(messages, ToolMsg(r.result, call.id))
                     /\ caller_list' = InPlace(messages')
                     /\ k' = k + 1
                     /\ Traced(r.T)
                     /\ UNCHANGED <<pc, err>>
    /\ UNCHANGED <<harness, input, viaMain, tool_calls, reqs, issued, span,
                   ret>>

(* as FinishToolCalls, with the return of line 201 inside the loop: taken
   as soon as one call has been answered *)
FinishToolCalls_Early ==
    /\ pc = "dispatch"
    /\ k > 1
    /\ Traced(SetOutput(EndDecorated(T0), span))
    /\ pc' = "loop"
    /\ UNCHANGED <<harness, input, viaMain, messages, caller_list,
                   tool_calls, k, reqs, issued, span, ret, invoked, err,
                   chart_config>>

(* line 201, the return into line 224, and line 225 *)
FinishToolCalls ==
    /\ pc = "dispatch"
    /\ k > Len(tool_calls)
    /\ Traced(SetOutput(EndDecorated(T0), span))
    /\ pc' = "loop"
    /\ UNCHANGED <<harness, input, viaMain, messages, caller_list,
                   tool_calls, k, reqs, issued, span, ret, invoked, err,
                   chart_config>>

(* start_main_span, lines 234-236 and the end of its `with` block *)
FinishMainSpan ==
    /\ pc = "main_ret"
    /\ Traced(EndSpan(SetStatus(SetOutput(T0, Current(T0)), Current(T0), "ok")))
    /\ pc' = "returned"
    /\ UNCHANGED <<harness, input, viaMain, messages, caller_list,
                   tool_calls, k, reqs, issued, span, ret, invoked, err,
                   chart_config>>

Next ==
    \/ StartMainSpan
    \/ NormalizeInput
    \/ EnsureSystem
    \/ OpenRouterSpan
    \/ ModelRequest
    \/ ModelRequestRaises
    \/ EnterToolCalls
    \/ ReturnFinal
    \/ DispatchUnknown
    \/ DispatchMalformed
    \/ DispatchInvoke
    \/ FinishToolCalls
    \/ FinishMainSpan

Spec == Init /\ [][Next]_vars

----------------------------------------------------------------------------
(* A caller that keeps its list and calls run_agent on it a second time *)

(* this call was handed a list that an earlier call has already worked on *)
SecondCall ==
    \E i \in 1..Len(input.list) : input.list[i].role = "assistant"

(* after a first call has returned, the caller passes the same list object
   again *)
CallAgain ==
    /\ pc = "returned"
    /\ input.kind = "list"
    /\ ~SecondCall
    /\ input' = [kind |-> "list", text |-> NoContent, list |-> caller_list]
    /\ messages' = caller_list
    /\ pc' = IF viaMain THEN "main" ELSE "start"
    /\ tool_calls' = <<>>
    /\ k' = 0
    /\ reqs' = 0
    /\ span' = 0
    /\ ret' = NoContent
    /\ UNCHANGED <<harness, viaMain, issued, spans, stack, invoked, err,
                   chart_config, caller_list>>

(* the caller passes a list with at most one system message, to run_agent
   itself *)
InitAgain ==
    /\ Init
    /\ input.kind = "list"
    /\ ~viaMain
    /\ \A i, j \in 1..Len(input.list) :
         (input.list[i].role = "system" /\ input.list[j].role = "system")
           => i = j

(* the steps of run_agent and handle_tool_calls, and the second call *)
NextAgain ==
    \/ NormalizeInput
    \/ EnsureSystem
    \/ OpenRouterSpan
    \/ ModelRequest
    \/ ModelRequestRaises
    \/ EnterToolCalls
    \/ ReturnFinal
    \/ DispatchUnknown
    \/ DispatchMalformed
    \/ DispatchInvoke
    \/ FinishToolCalls
    \/ CallAgain

SpecAgain == InitAgain /\ [][NextAgain]_vars
(* The benchmark script evaluate_custom.py *)

agent == <<input, viaMain, pc, messages, tool_calls, k, reqs, issued, spans,
           stack, span, ret, invoked, err, chart_config, caller_list>>

(* the agent is not run *)
AgentIdle ==
    /\ input = [kind |-> "str", text |-> NoContent, list |-> <<>>]
    /\ viaMain = FALSE
    /\ pc = "idle"
    /\ messages = <<>>
    /\ tool_calls = <<>>
    /\ k = 0
    /\ reqs = 0
    /\ issued = 0
    /\ spans = <<>>
    /\ stack = <<>>
    /\ span = 0
    /\ ret = NoContent
    /\ invoked = <<>>
    /\ err = "none"
    /\ chart_config = NoConfig
    /\ caller_list = <<>>

(* the script has read the instance (lines 6-11); the repository directory
   is there already, at the base commit, or it is not *)
HInit ==
    /\ AgentIdle
    /\ env \in Envs
    /\ hpc = "clone"
    /\ fs = IF env.exists0 THEN TreeFiles(env.tree) ELSE {}
    /\ cmds = <<>>
    /\ out = <<>>

(* lines 13-15: clone if the path does not exist; the exit code of git is
   not looked at *)
HClone ==
    /\ hpc = "clone"
    /\ IF ~Exists(fs, Resolve(Cwd, repo_path))
       THEN /\ cmds' = Append(cmds, Cmd(<<"git", "clone">>, repo_path, Cwd,
                                        IF env.cloneOk THEN 0 ELSE 1))
            /\ fs' = IF env.cloneOk THEN fs \cup TreeFiles(env.tree) ELSE fs
       ELSE UNCHANGED <<cmds, fs>>
    /\ hpc' = "checkout"
    /\ UNCHANGED <<agent, out, env>>

(* lines 18-19: git.Repo raises when there is no repository at the path,
   repo.git.checkout raises when git fails; neither is caught *)
HCheckout ==
    /\ hpc = "checkout"
    /\ IF ~Exists(fs, Resolve(Cwd, repo_path))
       THEN /\ hpc' = "raised"
            /\ UNCHANGED cmds
       ELSE /\ cmds' = Append(cmds, Cmd(<<"git", "checkout", base_commit>>,
                                        <<>>, repo_path,
                                        IF env.checkoutOk THEN 0 ELSE 1))
            /\ hpc' = IF env.checkoutOk THEN "install" ELSE "raised"
    /\ UNCHANGED <<agent, fs, out, env>>

(* as InstallCommands, with three independent if statements *)
InstallCommands_NoElif(F, rc) ==
    (IF Exists(F, Join(repo_path, "requirements.txt"))
     THEN <<Cmd(<<"pip", "install", "-r", "requirements.txt">>,
                <<"requirements.txt">>, repo_path, rc)>>
     ELSE <<>>)
    \o (IF Exists(F, Join(repo_path, "setup.py"))
        THEN <<Cmd(<<"pip", "install", "-e", ".">>, <<>>, repo_path, rc)>>
        ELSE <<>>)
    \o (IF Exists(F, Join(repo_path, "pyproject.toml"))
        THEN <<Cmd(<<"pip", "install", ".">>, <<>>, repo_path, rc)>>
        ELSE <<>>)

(* lines 22-27: the if / elif / elif chain over the probe files *)
InstallCommands(F, rc) ==
    IF Exists(F, Join(repo_path, "requirements.txt"))
    THEN <<Cmd(<<"pip", "install", "-r", "requirements.txt">>,
               <<"requirements.txt">>, repo_path, rc)>>
    ELSE IF Exists(F, Join(repo_path, "setup.py"))
    THEN <<Cmd(<<"pip", "install", "-e", ".">>, <<>>, repo_path, rc)>>
    ELSE IF Exists(F, Join(repo_path, "pyproject.toml"))
    THEN <<Cmd(<<"pip", "install", ".">>, <<>>, repo_path, rc)>>
    ELSE <<>>

(* lines 22-27; the exit code of pip is not looked at *)
HInstall ==
    /\ hpc = "install"
    /\ \E rc \in {0, 1} : cmds' = cmds \o InstallCommands(fs, rc)
    /\ hpc' = "write"
    /\ UNCHANGED <<agent, fs, out, env>>

(* the file open() of line 31 writes: patch_file from the script's
   working directory *)
WrittenPath == Resolve(Cwd, patch_file)

(* lines 30-32 *)
HWritePatch ==
    /\ hpc = "write"
    /\ fs' = Write(fs, WrittenPath, "patch")
    /\ hpc' = "apply"
    /\ UNCHANGED <<agent, cmds, out, env>>

(* line 35 and lines 42-43: git apply is handed patch_file and run in
   repo_path; git reads the file that argument names from there.  check=True
   raises CalledProcessError on a nonzero exit, which is caught and
   printed. *)
HApply ==
    LET read == Resolve(repo_path, patch_file)
        ok == Exists(fs, read) /\ env.applyOk
    IN  /\ hpc = "apply"
        /\ cmds' = Append(cmds, Cmd(<<"git", "apply">>, patch_file, repo_path,
                                    IF ok THEN 0 ELSE 1))
        /\ IF ok
           THEN /\ hpc' = "pytest"
                /\ UNCHANGED out
           ELSE /\ hpc' = "done"
                /\ out' = Append(out, "Failed to apply patch")
        /\ UNCHANGED <<agent, fs, env>>

(* lines 36-41 *)
HPytest ==
    /\ hpc = "pytest"
    /\ cmds' = Append(cmds, Cmd(<<"pytest", "-q">>, <<>>, repo_path,
                                env.testRc))
    /\ out' = IF env.testRc = 0
              THEN Append(out, "Solution appears to work!")
              ELSE out \o <<"Tests failed:", "stdout">>
    /\ hpc' = "done"
    /\ UNCHANGED <<agent, fs, env>>

HNext ==
    \/ HClone
    \/ HCheckout
    \/ HInstall
    \/ HWritePatch
    \/ HApply
    \/ HPytest

SpecHarness == HInit /\ [][HNext]_vars

----------------------------------------------------------------------------
(* Properties *)

LastMsg == messages[Len(messages)]

(* run_agent or start_main_span has returned to the caller *)
Returned == pc \in {"main_ret", "returned"}

(* the last response of the model carried no tool call *)
LastResponseEmpty ==
    /\ reqs >= 1
    /\ messages # <<>>
    /\ LastMsg.role = "assistant"
    /\ LastMsg.tool_calls = <<>>

(* C1, as stated: while the model service answers, the run ends (no further
   model request) if and only if the model returned a response with zero
   tool calls. *)
C1_TerminatesIffNoToolCalls ==
    /\ (Returned \/ (pc = "raised" /\ err # "model service error"))
          => LastResponseEmpty
    /\ LastResponseEmpty => (Returned \/ pc = "branch")

(* C1, amended: run_agent returns if and only if the model returned a
   response with zero tool calls, and then in that same iteration; while it
   has neither returned nor raised, every response so far carried a tool
   call; it ends without returning exactly by an exception leaving it. *)
C1_ReturnsIffNoToolCalls ==
    /\ Returned => (LastResponseEmpty /\ tool_calls = <<>> /\ err = "none")
    /\ LastResponseEmpty => (Returned \/ pc = "branch")
    /\ (reqs >= 1 /\ pc \in {"loop", "request", "dispatch"}) => tool_calls # <<>>
    /\ \A i \in 1..(Len(messages) - 1) :
         messages[i].role = "assistant" => messages[i].tool_calls # <<>>
    /\ (pc = "raised") <=> (err # "none")
    /\ (pc = "raised") => (ret = NoContent)

(* a run that returned after an iteration with tool calls *)
C1_Witness == pc = "returned" /\ reqs >= 2 /\ Len(invoked) >= 1

(* C2: every tool-result message carries the identifier of exactly one tool
   call of an assistant message earlier in the Conversation, and no two
   tool-result messages answer the same call. *)
CallsBefore(i) ==
    { <<j, c>> \in (1..(i - 1)) \X (1..MaxToolCalls) :
        /\ messages[j].role = "assistant"
        /\ c <= Len(messages[j].tool_calls) }

C2_ToolResultsCorrelate ==
    /\ \A i \in 1..Len(messages) :
         messages[i].role = "tool" =>
           Cardinality({ p \in CallsBefore(i) :
                           messages[p[1]].tool_calls[p[2]].id
                             = messages[i].tool_call_id }) = 1
    /\ \A i, j \in 1..Len(messages) :
         (i # j /\ messages[i].role = "tool" /\ messages[j].role = "tool")
           => messages[i].tool_call_id # messages[j].tool_call_id

(* a finished run (returned or raised) with two tool results *)
C2_Witness ==
    /\ pc \in {"returned", "raised"}
    /\ Cardinality({ i \in 1..Len(messages) : messages[i].role = "tool" }) >= 2

SystemCount(msgs) ==
    Cardinality({ i \in 1..Len(msgs) : msgs[i].role = "system" })

DictSystemCount(msgs) ==
    Cardinality({ i \in 1..Len(msgs) :
                    msgs[i].role = "system" /\ msgs[i].isdict })

(* C3, as stated: at every model request the Conversation holds exactly one
   system message, the fixed SYSTEM_PROMPT when the caller supplied none. *)
C3_ExactlyOneSystem ==
    pc = "request" =>
      /\ SystemCount(messages) = 1
      /\ SystemCount(input.list) = 0 =>
           \E i \in 1..Len(messages) : messages[i] = SystemMsg(SYSTEM_PROMPT)

(* C3, amended: at every model request the Conversation holds at least one
   system message: the caller's system messages, plus the fixed
   SYSTEM_PROMPT, appended once after the caller's messages, exactly when
   the caller supplied no system message as a dict.  So there is exactly one
   when the caller supplied none, or supplied a single one as a dict. *)
C3_SystemPresent ==
    pc = "request" =>
      LET given == IF input.kind = "str" THEN 1 ELSE Len(input.list)
          added == IF DictSystemCount(input.list) = 0 THEN 1 ELSE 0
      IN  /\ SystemCount(messages) >= 1
          /\ SystemCount(messages) = SystemCount(input.list) + added
          /\ added = 1 => messages[given + 1] = SystemMsg(SYSTEM_PROMPT)
          /\ added = 0 =>
               \A i \in 1..Len(messages) : messages[i] # SystemMsg(SYSTEM_PROMPT)

(* a second model request of a run whose caller supplied no system message *)
C3_Witness ==
    /\ pc = "request"
    /\ reqs >= 1
    /\ input.kind = "list"
    /\ SystemCount(input.list) = 0

Roles(msgs) == [i \in 1..Len(msgs) |-> msgs[i].role]

(* C4: for a bare string input, a first response with one data-lookup call
   and a second response with none, the Conversation after normalization
   begins with the fixed system prompt, run_agent returns the text of the
   second response and the final Conversation is system, user,
   assistant-with-call, tool-result, final assistant. *)
C4_EndToEnd ==
    /\ (input.kind = "str" /\ pc = "loop" /\ reqs = 0) =>
         messages[1] = SystemMsg(SYSTEM_PROMPT)
    /\ (/\ input.kind = "str"
        /\ pc = "returned"
        /\ reqs = 2
        /\ Len(invoked) = 1
        /\ invoked[1].name = "lookup_sales_data")
       => /\ Len(messages) = 5
          /\ Roles(messages) = <<"system", "user", "assistant", "tool",
                                 "assistant">>
          /\ Len(messages[3].tool_calls) = 1
          /\ ret = messages[5].content

(* C5: dispatching a tool call whose name is not in tool_implementations
   raises out of handle_tool_calls and run_agent, invokes no tool and leaves
   the Conversation as it was before the dispatch. *)
C5_UnknownToolRaises ==
    [][(Dispatching /\ tool_calls[k].name \notin ToolNames) =>
         /\ pc' = "raised"
         /\ err' = "KeyError"
         /\ messages' = messages
         /\ invoked' = invoked]_vars

(* an unknown tool met after an earlier call of the same response was
   answered *)
C5_Witness ==
    /\ pc = "raised"
    /\ err = "KeyError"
    /\ k = 2
    /\ LastMsg.role = "tool"

(* C6: when the backing store of the data lookup raises, lookup_sales_data
   returns a string beginning with "Error accessing data:", that string is
   the content of the tool message of the call, and the run goes on. *)
C6_LookupErrorContained ==
    /\ \A n \in 1..Len(invoked) :
         (invoked[n].name = "lookup_sales_data" /\ invoked[n].failed) =>
           \E i \in 1..Len(messages) :
             /\ messages[i].role = "tool"
             /\ messages[i].tool_call_id = invoked[n].id
             /\ Len(messages[i].content) >= 1
             /\ messages[i].content[1] = "Error accessing data:"
    /\ (pc = "raised" /\ err = "tool error") =>
         invoked[Len(invoked)].name # "lookup_sales_data"

(* the model request that follows a lookup whose SQL execution raised, in a
   run that also met a failing parquet read and a failing SQL generation *)
C6_Witness ==
    /\ pc = "request"
    /\ reqs >= 1
    /\ \A e \in {"read_parquet raises", "generate_sql_query raises",
                 "duckdb.sql raises"} :
         \E i \in 1..Len(messages) : messages[i].content = ErrorString(e)

(* the run is over: run_agent (and start_main_span, when it was the entry)
   has returned or raised *)
Over == pc \in {"returned", "raised"}

SpanIds == 1..Len(spans)

(* no span is ended twice or reopened, and the spans that have not ended are
   those of the tracer's current context *)
ClosedAtMostOnce ==
    \A i \in SpanIds :
      /\ spans[i].closes <= 1
      /\ spans[i].open <=> (spans[i].closes = 0)
      /\ spans[i].open <=> (\E n \in 1..Len(stack) : stack[n] = i)

(* C7, as stated: every span is closed exactly once on every exit path, and
   in a run whose iterations all succeed each span is closed with status
   ok. *)
C7_ClosedOnceAllOk ==
    /\ ClosedAtMostOnce
    /\ Over => \A i \in SpanIds : spans[i].closes = 1
    /\ (pc = "returned") => \A i \in SpanIds : spans[i].status = "ok"

(* C7, amended: every span is closed exactly once on every exit path and
   none is closed twice or reopened; in a run that returns, every span is
   closed with status ok except the execute_sql_query span of a lookup whose
   SQL execution raised (lookup_sales_data contains the exception), which is
   closed once with status error. *)
C7_ClosedOnce ==
    /\ ClosedAtMostOnce
    /\ Over => \A i \in SpanIds : spans[i].closes = 1
    /\ (pc = "returned") =>
         \A i \in SpanIds :
           \/ spans[i].status = "ok"
           \/ /\ spans[i].name = "execute_sql_query"
              /\ spans[i].status = "error"
              /\ spans[spans[i].parent].name = "lookup_sales_data"
              /\ spans[spans[i].parent].status = "ok"

(* a run entered through start_main_span that returned although the SQL
   execution of one lookup raised, next to one whose SQL execution
   succeeded *)
C7_Witness ==
    /\ pc = "returned"
    /\ viaMain
    /\ \E i \in SpanIds :
         spans[i].name = "execute_sql_query" /\ spans[i].status = "error"
    /\ \E i \in SpanIds :
         spans[i].name = "execute_sql_query" /\ spans[i].status = "ok"

(* C8: the output of every iteration span (router_call) is recorded exactly
   once and while the span is open, never after its close. *)
C8_OutputBeforeClose ==
    \A i \in SpanIds :
      spans[i].name = "router_call" =>
        /\ spans[i].late = 0
        /\ spans[i].outputs <= 1
        /\ (~spans[i].open /\ spans[i].status = "ok") => spans[i].outputs = 1

(* span i lies below span a in the trace tree *)
RECURSIVE Under(_, _)
Under(i, a) ==
    /\ spans[i].parent # 0
    /\ \/ spans[i].parent = a
       \/ Under(spans[i].parent, a)

(* C9: the iteration span is still open while the iteration's tool calls
   are dispatched, and every span opened by the tool executor is a
   descendant of an iteration span. *)
C9_IterationSpanCovers ==
    /\ (pc = "dispatch") => spans[span].open
    /\ \A i \in SpanIds :
         spans[i].name \in ({"handle_tool_calls", "execute_sql_query",
                             "extract_chart_config", "create_chart"}
                              \cup ToolNames)
           => \E a \in SpanIds : spans[a].name = "router_call" /\ Under(i, a)

(* C10: at every step the Conversation is the previous Conversation
   extended at the end by zero or one message. *)
C10_AppendOnly ==
    [][\/ messages' = messages
       \/ /\ Len(messages') = Len(messages) + 1
          /\ SubSeq(messages', 1, Len(messages)) = messages]_vars

(* a returned run that added a system prompt, two responses and two tool
   results to the caller's list, which is still its prefix *)
C10_Witness ==
    /\ pc = "returned"
    /\ input.kind = "list"
    /\ Len(messages) >= Len(input.list) + 5
    /\ SubSeq(messages, 1, Len(input.list)) = input.list

(* C11: when the caller passes a list, every message the loop appends is
   appended to that same list object: the caller's list is its input
   followed by the appended messages, its last element after a return is
   the final assistant response, and a second call on the same list starts
   from the accumulated Conversation and appends no second system
   message. *)
C11_CallerListAccumulates ==
    input.kind = "list" =>
      /\ caller_list = messages
      /\ Len(caller_list) >= Len(input.list)
      /\ SubSeq(caller_list, 1, Len(input.list)) = input.list
      /\ (pc = "returned") =>
           /\ caller_list[Len(caller_list)].role = "assistant"
           /\ caller_list[Len(caller_list)].tool_calls = <<>>
           /\ caller_list[Len(caller_list)].content = ret
           /\ Len(caller_list) > Len(input.list)
      /\ SecondCall =>
           /\ SystemCount(caller_list) = SystemCount(input.list)
           /\ SystemCount(input.list) >= 1

(* a second call that has returned after an iteration with a tool call *)
C11_Witness ==
    /\ SecondCall
    /\ pc = "returned"
    /\ reqs >= 2
    /\ Len(caller_list) >= Len(input.list) + 3

VizCalls == { n \in 1..Len(invoked) : invoked[n].name = "generate_visualization" }

(* C12: a structured-output call of extract_chart_config that fails to
   parse never raises to the caller of generate_visualization; it yields
   the default configuration line / date / value / <goal>, which is what is
   passed to create_chart. *)
C12_ParseFailureDefaults ==
    \A n \in VizCalls :
      ~invoked[n].parsed =>
        /\ ~invoked[n].failed
        /\ (n = Len(invoked)) => chart_config = DefaultConfig(Goal)

(* C18: whenever the structured-output call succeeds and yields a
   VisualizationConfig, the configuration returned by extract_chart_config
   carries that response's chart_type, x_axis, y_axis and title, not the
   defaults. *)
C18_ParsedConfigUsed ==
    \A n \in VizCalls :
      (invoked[n].parsed /\ n = Len(invoked)) =>
        /\ chart_config = ModelConfig
        /\ chart_config # DefaultConfig(Goal)

(* C13: a tool call whose argument payload does not parse as JSON makes an
   error leave handle_tool_calls and run_agent (the JSON decode error, the
   name being looked up before the payload is parsed); the tool is not
   invoked for that call and no tool message is appended for it. *)
C13_MalformedArgsRaise ==
    [][(Dispatching /\ ~JsonLoads(tool_calls[k].arguments).ok) =>
         /\ pc' = "raised"
         /\ tool_calls[k].name \in ToolNames => err' = "JSONDecodeError"
         /\ err' \in {"JSONDecodeError", "KeyError"}
         /\ invoked' = invoked
         /\ messages' = messages]_vars

(* arguments that are not JSON met after an earlier call of the same
   response was answered *)
C13_Witness ==
    /\ pc = "raised"
    /\ err = "JSONDecodeError"
    /\ k = 2
    /\ LastMsg.role = "tool"
    /\ Len(invoked) = 1

MsgIds == 1..Len(messages)

Assistants == { j \in MsgIds : messages[j].role = "assistant" }

(* the last assistant message before position t (0 if there is none) *)
AssistantBefore(t) ==
    IF \E j \in Assistants : j < t
    THEN CHOOSE j \in Assistants : j < t /\ \A h \in Assistants : h < t => h <= j
    ELSE 0

(* tool call c of assistant message j is answered by the message c places
   after it *)
AnsweredInPlace(j, c) ==
    /\ j + c <= Len(messages)
    /\ messages[j + c].role = "tool"
    /\ messages[j + c].tool_call_id = messages[j].tool_calls[c].id

FullyAnswered(j) ==
    \A c \in 1..Len(messages[j].tool_calls) : AnsweredInPlace(j, c)

(* C14: the calls of one response are executed once each, one at a time in
   the order issued; their tool messages form a contiguous block right
   after the assistant message, the i-th carrying the i-th call's
   identifier; the next model request is issued only after all of them. *)
C14_SequentialInOrder ==
    /\ \A t \in MsgIds :
         messages[t].role = "tool" =>
           LET j == AssistantBefore(t) IN
             /\ j >= 1
             /\ t - j <= Len(messages[j].tool_calls)
             /\ AnsweredInPlace(j, t - j)
             /\ \A u \in (j + 1)..t : messages[u].role = "tool"
    /\ \A a, b \in 1..Len(invoked) : a < b => invoked[a].id < invoked[b].id
    /\ { messages[t].tool_call_id :
            t \in { u \in MsgIds : messages[u].role = "tool" } }
         = { invoked[n].id :
               n \in { h \in 1..Len(invoked) :
                        ~(h = Len(invoked) /\ pc = "raised"
                                           /\ err = "tool error") } }
    /\ \A j \in Assistants :
         (\E h \in Assistants : h > j) => FullyAnswered(j)
    /\ (pc \in {"loop", "request"}) => \A j \in Assistants : FullyAnswered(j)
    /\ (pc = "dispatch") =>
         \A c \in 1..Len(tool_calls) :
           (c < k) <=> AnsweredInPlace(AssistantBefore(Len(messages) + 1), c)

(* the model request that follows a response with two calls, both
   answered *)
C14_Witness ==
    /\ pc = "request"
    /\ reqs >= 1
    /\ Len(tool_calls) >= 2
    /\ Len(invoked) >= 2
    /\ FullyAnswered(AssistantBefore(Len(messages) + 1))

(* C15: when run_agent returns, the returned value is the text of the last
   message of the Conversation, which is an assistant response without tool
   calls, and every tool call of every earlier assistant message has been
   answered; it never returns from an iteration whose response carried a
   tool call. *)
C15_ReturnsFinalText ==
    Returned =>
      /\ ret = LastMsg.content
      /\ ret = FinalText
      /\ LastMsg.role = "assistant"
      /\ LastMsg.tool_calls = <<>>
      /\ tool_calls = <<>>
      /\ \A j \in Assistants : j < Len(messages) => FullyAnswered(j)
      /\ Cardinality({ t \in MsgIds : messages[t].role = "tool" }) = issued

(* a return after two iterations that carried tool calls *)
C15_Witness ==
    /\ pc = "returned"
    /\ reqs >= 3
    /\ issued >= 2

InvokedIds == { invoked[n].id : n \in 1..Len(invoked) }

(* C16: when dispatch of the k-th of n calls fails (unknown name or
   unparsable arguments), calls 1..k-1 have been executed and their tool
   messages remain, calls k..n are never executed, no further model request
   is issued, and the Conversation ends with the assistant message, followed
   by those k-1 tool messages, whose calls k..n have no tool-result
   message. *)
C16_PartialDispatch ==
    (pc = "raised" /\ err \in {"KeyError", "JSONDecodeError"}) =>
      LET j == AssistantBefore(Len(messages) + 1) IN
        /\ j >= 1
        /\ messages[j].tool_calls = tool_calls
        /\ k \in 1..Len(tool_calls)
        /\ Len(messages) = j + k - 1
        /\ \A c \in 1..Len(tool_calls) :
             IF c < k
             THEN AnsweredInPlace(j, c) /\ tool_calls[c].id \in InvokedIds
             ELSE /\ tool_calls[c].id \notin InvokedIds
                  /\ \A t \in MsgIds :
                       messages[t].tool_call_id # tool_calls[c].id
        /\ reqs = Cardinality(Assistants)
        /\ reqs = Cardinality({ i \in SpanIds : spans[i].name = "router_call" })

(* the second of three calls failed: the first is answered, the third was
   never executed *)
C16_Witness ==
    /\ pc = "raised"
    /\ err \in {"KeyError", "JSONDecodeError"}
    /\ Len(tool_calls) = 3
    /\ k = 2
    /\ tool_calls[3].name \in ToolNames
    /\ tool_calls[3].arguments = ValidArgs

(* C17: no span ends with status ok when the work it wraps raised; when
   run_agent raises, the AgentRun span is closed without status ok and
   without an output; when the SQL execution raises inside
   lookup_sales_data, the execute_sql_query span is closed without status
   ok although the enclosing tool call returns normally. *)
C17_NoOkWhenRaised ==
    /\ \A i \in SpanIds :
         spans[i].raised =>
           /\ spans[i].status # "ok"
           /\ spans[i].outputs = 0
           /\ spans[i].closes = 1
    /\ (pc = "raised" /\ viaMain) =>
         /\ spans[1].name = "AgentRun"
         /\ spans[1].raised
         /\ spans[1].status # "ok"
         /\ spans[1].outputs = 0
    /\ (pc = "raised") => \A i \in SpanIds : spans[i].name # "AgentRun" \/ i = 1
    /\ \A i \in SpanIds :
         (spans[i].name = "execute_sql_query" /\ spans[i].raised) =>
           /\ spans[i].status # "ok"
           /\ spans[spans[i].parent].name = "lookup_sales_data"
           /\ ~spans[spans[i].parent].raised
           /\ spans[spans[i].parent].status = "ok"
    /\ \A n \in 1..Len(invoked) :
         (invoked[n].name = "lookup_sales_data" /\ ~invoked[n].failed) =>
           \E i \in SpanIds :
             spans[i].name = "execute_sql_query" /\ spans[i].status = "ok"

(* a run entered through start_main_span that raised after a lookup whose
   SQL execution had raised *)
C17_Witness ==
    /\ pc = "raised"
    /\ viaMain
    /\ \E i \in SpanIds :
         spans[i].name = "execute_sql_query" /\ spans[i].raised

Ran(argv) == {n \in 1..Len(cmds) : cmds[n].argv = argv}

Applies == Ran(<<"git", "apply">>)

Tests == Ran(<<"pytest", "-q">>)

(* C19: the path handed to git apply, resolved against that command's
   working directory, is the file the write step wrote; the tests run only
   after a successful application; success is reported exactly when pytest
   exits with 0; a failed application is reported by a failure message and
   does not raise. *)
C19_AppliesWrittenPatch ==
    /\ \A n \in Applies :
         /\ Resolve(cmds[n].cwd, cmds[n].file) = WrittenPath
         /\ File(WrittenPath, "patch") \in fs
    /\ \A n \in Tests : \E m \in Applies : m < n /\ cmds[m].rc = 0
    /\ hpc = "done" =>
         \A n \in Tests :
           (\E i \in 1..Len(out) : out[i] = "Solution appears to work!")
             <=> cmds[n].rc = 0
    /\ \A n \in Applies :
         cmds[n].rc # 0 =>
           /\ hpc = "done"
           /\ out = <<"Failed to apply patch">>

Installs == {n \in 1..Len(cmds) : cmds[n].argv[1] = "pip"}

Probed(name) == Exists(fs, Join(repo_path, name))

Clones == Ran(<<"git", "clone">>)

Checkouts == Ran(<<"git", "checkout", base_commit>>)

(* C20: at most one dependency-install command runs, chosen in the priority
   order requirements.txt, setup.py, pyproject.toml, and none when none of
   them exists; the repository is cloned only if its directory was absent;
   clone and checkout precede the install step, which precedes patch
   application. *)
C20_OneInstallInOrder ==
    /\ Cardinality(Installs) <= 1
    /\ \A n \in Installs :
         /\ cmds[n].cwd = repo_path
         /\ cmds[n].argv =
              IF Probed("requirements.txt")
              THEN <<"pip", "install", "-r", "requirements.txt">>
              ELSE IF Probed("setup.py")
              THEN <<"pip", "install", "-e", ".">>
              ELSE <<"pip", "install", ".">>
         /\ \E name \in ProbeFiles : Probed(name)
         /\ \A m \in Clones : m < n
         /\ \E m \in Checkouts : m < n /\ cmds[m].rc = 0
         /\ \A m \in Applies : n < m
    /\ hpc \in {"write", "apply", "pytest", "done"} =>
         /\ (\E name \in ProbeFiles : Probed(name)) => Installs # {}
         /\ \E m \in Checkouts : cmds[m].rc = 0
    /\ Clones # {} => ~env.exists0
    /\ (hpc # "clone" /\ ~env.exists0) => Clones = {1}
    /\ \A n \in Applies :
         /\ \A m \in Clones : m < n
         /\ \E m \in Checkouts : m < n

(* a run that cloned, found only pyproject.toml, installed with
   `pip install .` and went on to apply the patch *)
C20_Witness ==
    /\ hpc = "done"
    /\ Clones # {}
    /\ Applies # {}
    /\ ~Probed("requirements.txt")
    /\ ~Probed("setup.py")
    /\ \E n \in Installs : cmds[n].argv = <<"pip", "install", ".">>

====
